---- MODULE Spec2Model ----
(***************************************************************************)
(* A model of the email-extraction pipeline of sadafe/Sales:               *)
(*   - proxy vetting (src/src/utils.py: is_bad_proxy, is_proxy,            *)
(*     is_good_proxy, get_random_proxy),                                   *)
(*   - the fetcher with retries and exponential backoff                    *)
(*     (EmailExtractor.get_webpage_content in src/src/email_extractor.py   *)
(*     and ExtractionEmail.get_webpage_content in src/src/utils_email.py), *)
(*   - email validation and extraction on character strings               *)
(*     (src/src/utils.py, src/src/email_extractor.py,                      *)
(*     src/src/utils_email.py, src/email_extractor.py).                    *)
(* Strings that the code inspects character by character are sequences of  *)
(* one-character strings; values the code only passes around (proxies,     *)
(* page bodies of the fetcher) are opaque strings.                         *)
(***************************************************************************)
EXTENDS Integers, Sequences, FiniteSets, TLC

VARIABLES
    cls,          \* the class in use: "EmailExtractor" or "ExtractionEmail"
    use_proxies,  \* config extraction.use_proxies
    max_retries,  \* config extraction.max_retries / self.max_retries
    relays,       \* environment: can the candidate relay the test request
    metaInfo,     \* environment: what ProxyInformation.check_proxy answers
    proxy_file,   \* the candidate list; is_good_proxy edits it in place and
                  \* self.proxies is this very list
    vetCopy,      \* proxy_list[:], the snapshot is_good_proxy iterates over
    vetIdx,       \* position of the for loop in vetCopy (1-based)
    vetPassed,    \* history: candidates some probe kept
    vetRejected,  \* history: candidates some probe removed
    pc,           \* position of the session
    attempt,      \* loop variable of get_webpage_content
    headers,      \* the header set built by the current fetch call
    hdrDraws,     \* history: header sets synthesized by the current call
    proxyDraws,   \* history: get_random_proxy calls of the current call
    proxiesUsed,  \* history: the `proxies` arguments of the current call
    log,          \* history: the requests issued by the current call
    sleeps,       \* history: the time.sleep arguments of the current call
    result,       \* value returned by the last get_webpage_content call
    txt,          \* state of the string-level specifications
    batch         \* state of a batch run: process_category, the --file
                  \* branch of main, process_ogrn_list

vars == << cls, use_proxies, max_retries, relays, metaInfo, proxy_file,
           vetCopy, vetIdx, vetPassed, vetRejected, pc, attempt, headers,
           hdrDraws, proxyDraws, proxiesUsed, log, sleeps, result, txt,
           batch >>

vetVars == << proxy_file, vetCopy, vetIdx, vetPassed, vetRejected >>
envVars == << cls, use_proxies, max_retries, relays, metaInfo >>
fetchVars == << attempt, headers, hdrDraws, proxyDraws, proxiesUsed, log,
               sleeps, result >>

(***************************************************************************)
(* Bounds of the model.                                                    *)
(***************************************************************************)
MaxRetries == 3
MaxCandidates == 2
MaxVetCandidates == 4
MaxEmails == 3
MaxStrLen == 5

(***************************************************************************)
(* Values.                                                                 *)
(***************************************************************************)
Proxies == {"p1", "p2"}
NoProxy == "None"
None == "<None>"
Bodies == {"", "<html>"}
UserAgents == {"ua1", "ua2"}
Statuses == {200, 304, 403, 500}
ProbeOutcomes == {"ok", "http_error", "error"}
MetaOutcomes == {"status_true", "status_false", "raise"}

Range(s) == {s[i] : i \in 1..Len(s)}

SeqsUpTo(S, n) == UNION {[1..k -> S] : k \in 0..n}

\* list.remove(x): drops the first element equal to x
list_remove_nothing(s, x) == s
RECURSIVE list_remove(_, _)
list_remove(s, x) ==
    IF s = << >> THEN << >>
    ELSE IF Head(s) = x THEN Tail(s)
    ELSE << Head(s) >> \o list_remove(Tail(s), x)

(***************************************************************************)
(* Proxy vetting: src/src/utils.py, is_bad_proxy / is_proxy /              *)
(* is_good_proxy.                                                          *)
(***************************************************************************)
\* is_bad_proxy builds ProxyHandler({'http': pip}) and then opens
\* 'https://www.example.com'.  urllib routes a request through a
\* ProxyHandler only when the scheme of the request is a key of the
\* handler's dictionary.
ProxyHandlerSchemes == {"http"}
TestUrlScheme == "https"

\* What the test request of is_bad_proxy meets: the candidate when the
\* request is routed through it, the network outcome d of a direct
\* connection otherwise.
TestRequest(pip, d) ==
    IF TestUrlScheme \in ProxyHandlerSchemes
    THEN (IF relays[pip] THEN "ok" ELSE "error")
    ELSE d

\* is_bad_proxy: False when urlopen returned, e.code (truthy) on HTTPError,
\* True on any other exception
is_bad_proxy(pip, d) == TestRequest(pip, d) # "ok"

\* is_proxy: proxy_info.get('status', False) for a dict, False otherwise;
\* there is no try/except around check_proxy
is_proxy_raises(pip) == metaInfo[pip] = "raise"
is_proxy(pip) == metaInfo[pip] = "status_true"

\* EmailExtractor.__init__ / ExtractionEmail.__init__
Construct ==
    /\ pc = "new"
    /\ IF cls = "EmailExtractor" /\ use_proxies
       THEN /\ vetCopy' = proxy_file
            /\ vetIdx' = 1
            /\ pc' = "vetting"
            /\ UNCHANGED proxy_file
       ELSE /\ proxy_file' = << >>
            /\ pc' = "ready"
            /\ UNCHANGED << vetCopy, vetIdx >>
    /\ UNCHANGED << envVars, fetchVars, vetPassed, vetRejected, txt,
                    batch >>

\* one iteration of `for current_proxy in proxy_list[:]` of is_good_proxy
is_good_proxy_step ==
    /\ pc = "vetting"
    /\ vetIdx <= Len(vetCopy)
    /\ \E d \in ProbeOutcomes :
        LET current_proxy == vetCopy[vetIdx] IN
        IF is_bad_proxy(current_proxy, d)
        THEN /\ proxy_file' = list_remove(proxy_file, current_proxy)
             /\ vetRejected' = vetRejected \cup {current_proxy}
             /\ vetIdx' = vetIdx + 1
             /\ UNCHANGED << vetPassed, pc >>
        ELSE IF is_proxy_raises(current_proxy)
        THEN /\ pc' = "crashed"
             /\ UNCHANGED << proxy_file, vetIdx, vetPassed, vetRejected >>
        ELSE IF ~ is_proxy(current_proxy)
        THEN /\ proxy_file' = list_remove(proxy_file, current_proxy)
             /\ vetRejected' = vetRejected \cup {current_proxy}
             /\ vetIdx' = vetIdx + 1
             /\ UNCHANGED << vetPassed, pc >>
        ELSE /\ vetPassed' = vetPassed \cup {current_proxy}
             /\ vetIdx' = vetIdx + 1
             /\ UNCHANGED << proxy_file, vetRejected, pc >>
    /\ UNCHANGED << envVars, fetchVars, vetCopy, txt,
                    batch >>

\* `return proxy_list`; __init__ stores it in self.proxies
is_good_proxy_return ==
    /\ pc = "vetting"
    /\ vetIdx > Len(vetCopy)
    /\ pc' = "ready"
    /\ UNCHANGED << envVars, fetchVars, vetVars, txt,
                    batch >>

\* self.proxies
self_proxies == proxy_file

\* get_random_proxy(proxies): None for an empty list, else random.choice
get_random_proxy(proxies) ==
    IF proxies = << >> THEN {NoProxy} ELSE Range(proxies)

(***************************************************************************)
(* The fetcher: EmailExtractor.get_webpage_content                         *)
(* (src/src/email_extractor.py:49-119) and                                 *)
(* ExtractionEmail.get_webpage_content (src/src/utils_email.py:95-134).    *)
(***************************************************************************)
\* d[k] = v of a Python dict: keys are compared as written, case included
DictSet(d, k, v) ==
    [x \in (DOMAIN d) \cup {k} |-> IF x = k THEN v ELSE d[x]]

\* the literal dictionary of the header set, with the drawn User-Agent
BaseHeaders(ua) ==
    [k \in {"cache-control", "sec-fetch-dest", "sec-fetch-mode",
            "sec-fetch-site", "sec-fetch-user", "user-agent"} |->
        CASE k = "cache-control" -> "no-cache"
          [] k = "sec-fetch-dest" -> "document"
          [] k = "sec-fetch-mode" -> "navigate"
          [] k = "sec-fetch-site" -> "same-origin"
          [] k = "sec-fetch-user" -> "?1"
          [] k = "user-agent" -> ua]

\* _get_headers / the header block of get_webpage_content: `branch` is
\* the outcome of random.random() > 0.5
get_headers(ua, branch) ==
    IF branch
    THEN DictSet(DictSet(DictSet(DictSet(BaseHeaders(ua),
            "Sec-Fetch-Dest", "document"),
            "Sec-Fetch-Mode", "navigate"),
            "Sec-Fetch-Site", "cross-site"),
            "Sec-Fetch-User", "?1")
    ELSE BaseHeaders(ua)

\* Response.raise_for_status: HTTPError for 4xx and 5xx only
raise_for_status_5xx_only(status) == 500 <= status /\ status < 600
raise_for_status(status) ==
    (400 <= status /\ status < 500) \/ (500 <= status /\ status < 600)

\* what one requests.get call can do: answer with a status and a body, or
\* raise; "ConnectionError" stands for the subclasses of
\* requests.exceptions.RequestException, "ValueError" for an exception
\* that is not one
Raised == {"ConnectionError", "ValueError"}
\* (the body of a response that raise_for_status rejects is never read)
Outcomes ==
    {o \in [kind : {"response"}, status : Statuses, body : Bodies,
            exc : {"none"}] : raise_for_status(o.status) => o.body = ""}
    \cup [kind : {"raise"}, status : {0}, body : {""}, exc : Raised]

\* the exception in flight after requests.get and raise_for_status
ExcOf(o) ==
    IF o.kind = "raise" THEN o.exc
    ELSE IF raise_for_status(o.status) THEN "HTTPError"
    ELSE "none"

\* `except requests.exceptions.RequestException`
RequestException == {"ConnectionError", "HTTPError"}

\* `for attempt in range(max_retries)`: is there an iteration for attempt
in_range_off_by_one(a, n) == a <= n
in_range(a, n) == a < n

\* `if attempt < max_retries - 1`: a sleep follows the failed attempt
sleeps_after(a, n) == a < n - 1

\* `delay = 2 ** attempt`
backoff_delay_shifted(a) == 2 ^ (a + 1)
backoff_delay(a) == 2 ^ a

\* the value returned when no attempt succeeded: None in EmailExtractor,
\* "" in ExtractionEmail
FailureValue == IF cls = "EmailExtractor" THEN None ELSE ""

\* entry of get_webpage_content: max_retries resolved, headers built once,
\* before the loop
get_webpage_content_call_vetting_again ==
    /\ pc \in {"ready", "returned", "raised"}
    /\ vetCopy' = proxy_file
    /\ vetIdx' = 1
    /\ pc' = "vetting"
    /\ UNCHANGED << envVars, fetchVars, proxy_file, vetPassed, vetRejected,
                    txt, batch >>
get_webpage_content_call ==
    /\ pc \in {"ready", "returned", "raised"}
    /\ \E ua \in UserAgents, branch \in BOOLEAN :
           headers' = get_headers(ua, branch)
    /\ hdrDraws' = 1
    /\ proxyDraws' = 0
    /\ proxiesUsed' = {}
    /\ attempt' = 0
    /\ log' = << >>
    /\ sleeps' = << >>
    /\ result' = None
    /\ pc' = "attempt"
    /\ UNCHANGED << envVars, vetVars, txt,
                    batch >>

\* `proxies = get_random_proxy(self.proxies) if self.proxies else None`,
\* evaluated inside the loop; ExtractionEmail passes no proxies argument
attempt_proxies_fixed_for_the_call ==
    IF proxiesUsed # {} THEN proxiesUsed
    ELSE IF cls = "EmailExtractor" /\ self_proxies # << >>
    THEN get_random_proxy(self_proxies)
    ELSE {NoProxy}
attempt_proxies ==
    IF cls = "EmailExtractor" /\ self_proxies # << >>
    THEN get_random_proxy(self_proxies)
    ELSE {NoProxy}

\* one pass through the try block of `for attempt in range(max_retries)`
get_webpage_content_attempt ==
    /\ pc = "attempt"
    /\ in_range(attempt, max_retries)
    /\ \E proxies \in attempt_proxies, o \in Outcomes :
        /\ log' = Append(log, [status |-> o.status, body |-> o.body,
                               exc |-> ExcOf(o)])
        /\ proxiesUsed' = proxiesUsed \cup {proxies}
        /\ proxyDraws' = IF cls = "EmailExtractor" /\ self_proxies # << >>
                         THEN proxyDraws + 1 ELSE proxyDraws
        /\ IF ExcOf(o) = "none"
           THEN \* return response.text
                /\ result' = o.body
                /\ pc' = "returned"
                /\ UNCHANGED attempt
           ELSE IF ExcOf(o) \in RequestException
           THEN /\ IF sleeps_after(attempt, max_retries)
                   THEN pc' = "backoff" /\ UNCHANGED attempt
                   ELSE pc' = "attempt" /\ attempt' = attempt + 1
                /\ UNCHANGED result
           ELSE \* not caught here: the exception leaves the call
                /\ pc' = "raised"
                /\ UNCHANGED << attempt, result >>
    /\ UNCHANGED << envVars, vetVars, headers, hdrDraws, sleeps, txt,
                    batch >>

\* delay = 2 ** attempt; time.sleep(delay); next iteration
get_webpage_content_sleep ==
    /\ pc = "backoff"
    /\ sleeps' = Append(sleeps, backoff_delay(attempt))
    /\ attempt' = attempt + 1
    /\ pc' = "attempt"
    /\ UNCHANGED << envVars, vetVars, headers, hdrDraws, proxyDraws,
                    proxiesUsed, log, result, txt,
                    batch >>

\* the loop is exhausted: `return None` / `return ""`
get_webpage_content_exhausted ==
    /\ pc = "attempt"
    /\ ~ in_range(attempt, max_retries)
    /\ result' = FailureValue
    /\ pc' = "returned"
    /\ UNCHANGED << envVars, vetVars, attempt, headers, hdrDraws,
                    proxyDraws, proxiesUsed, log, sleeps, txt,
                    batch >>

(***************************************************************************)
(* The session: construction (with vetting when proxies are enabled),      *)
(* then any number of fetch calls.                                         *)
(***************************************************************************)
NoHeaders == [k \in {} |-> ""]

\* the state before the constructor runs
Fresh ==
    /\ vetCopy = << >>
    /\ vetIdx = 0
    /\ vetPassed = {}
    /\ vetRejected = {}
    /\ pc = "new"
    /\ attempt = 0
    /\ headers = NoHeaders
    /\ hdrDraws = 0
    /\ proxyDraws = 0
    /\ proxiesUsed = {}
    /\ log = << >>
    /\ sleeps = << >>
    /\ result = None

\* The session starts with a configuration, a candidate list (the proxy
\* file merged with the remote list) and an environment.  What the
\* environment holds about a proxy that is no candidate is never read; the
\* code of a session never reads `relays` at all (see TestRequest), so the
\* session is explored for one value of it and SpecVet varies it.
Init ==
    /\ cls \in {"EmailExtractor", "ExtractionEmail"}
    /\ use_proxies \in BOOLEAN
    /\ max_retries \in 0..MaxRetries
    /\ proxy_file \in SeqsUpTo(Proxies, MaxCandidates)
    /\ (cls = "ExtractionEmail" \/ ~ use_proxies) =>
           (proxy_file = << >> /\ ~ use_proxies)
    /\ relays = [p \in Proxies |-> TRUE]
    /\ metaInfo \in [Proxies -> MetaOutcomes]
    /\ \A p \in Proxies \ Range(proxy_file) : metaInfo[p] = "status_true"
    /\ Fresh
    /\ txt = << >>
    /\ batch = << >>

Next ==
    \/ Construct
    \/ is_good_proxy_step
    \/ is_good_proxy_return
    \/ get_webpage_content_call
    \/ get_webpage_content_attempt
    \/ get_webpage_content_sleep
    \/ get_webpage_content_exhausted

Spec == Init /\ [][Next]_vars

(***************************************************************************)
(* Vetting alone: the constructor of an EmailExtractor with proxies        *)
(* enabled, over longer candidate lists and every environment.             *)
(***************************************************************************)
InitVet ==
    /\ cls = "EmailExtractor"
    /\ use_proxies = TRUE
    /\ max_retries = MaxRetries
    /\ proxy_file \in SeqsUpTo(Proxies, MaxVetCandidates)
    /\ relays \in [Proxies -> BOOLEAN]
    /\ metaInfo \in [Proxies -> MetaOutcomes]
    /\ \A p \in Proxies \ Range(proxy_file) :
           relays[p] /\ metaInfo[p] = "status_true"
    /\ Fresh
    /\ txt = << >>
    /\ batch = << >>

NextVet ==
    \/ Construct
    \/ is_good_proxy_step
    \/ is_good_proxy_return

SpecVet == InitVet /\ [][NextVet]_vars

(***************************************************************************)
(* Claims about the fetcher and the vetter, checked under Spec.            *)
(***************************************************************************)
Is2xx(e) == e.exc = "none" /\ 200 <= e.status /\ e.status < 300
Failed(e) == e.exc # "none"
Last(s) == s[Len(s)]
InFetch == pc \in {"attempt", "backoff", "returned", "raised"}

\* C1: one call of get_webpage_content issues at most max_retries GET
\* requests; a request that completes with a 2xx status is the last request
\* of the call, and the call has returned the body of that request.
C1_AtMostNRequestsStopAtSuccess ==
    /\ Len(log) <= max_retries
    /\ \A i \in 1..Len(log) :
           Is2xx(log[i]) =>
               /\ i = Len(log)
               /\ pc = "returned"
               /\ result = log[i].body

\* C1 witness: with three attempts allowed, the second request succeeds and
\* its body has been returned after two requests
C1_Witness ==
    /\ pc = "returned"
    /\ max_retries = 3
    /\ Len(log) = 2
    /\ Failed(log[1])
    /\ Is2xx(log[2])
    /\ result = "<html>"

\* C2: the k-th sleep of a fetch call (k from 0) lasts 2^k seconds; every
\* failed attempt that is followed by another attempt is followed by exactly
\* one sleep before it, and no sleep follows a success or the last
\* permitted attempt.
C2_ExponentialBackoff ==
    /\ \A i \in 1..Len(sleeps) : sleeps[i] = 2 ^ (i - 1)
    /\ pc = "backoff" =>
           /\ Len(log) < max_retries
           /\ Failed(Last(log))
           /\ Len(sleeps) = Len(log) - 1
    /\ (pc = "attempt" /\ Len(log) < max_retries) => Len(sleeps) = Len(log)
    /\ ((pc = "attempt" /\ Len(log) >= max_retries)
        \/ pc \in {"returned", "raised"}) =>
           Len(sleeps) = IF Len(log) = 0 THEN 0 ELSE Len(log) - 1

\* C2 witness: maxRetries = 3, two failures, then a success: the call slept
\* 1 s then 2 s and returned the body of the third request
C2_Witness ==
    /\ pc = "returned"
    /\ max_retries = 3
    /\ Len(log) = 3
    /\ Failed(log[1]) /\ Failed(log[2]) /\ Is2xx(log[3])
    /\ sleeps = << 1, 2 >>
    /\ result = log[3].body
    /\ result = "<html>"

\* C3 (as claimed): when all max_retries attempts of a call were made and
\* every one failed, the call has returned its failure value and no
\* exception has left it.
C3_ExhaustionReturnsFailure ==
    (/\ pc \in {"returned", "raised"}
     /\ Len(log) = max_retries
     /\ \A i \in 1..Len(log) : Failed(log[i]))
    => (pc = "returned" /\ result = FailureValue)

\* the statuses by which a host rejects access outright
BlockedStatuses == {403}
IsBlocked(e) == e.status \in BlockedStatuses

\* C4 (as claimed): an attempt answered with a blocking status is the last
\* request of the call, no sleep follows it, and the call ends with a
\* result that differs from the value returned on retry exhaustion.
C4_BlockedIsNotRetried ==
    \A i \in 1..Len(log) :
        IsBlocked(log[i]) =>
            /\ i = Len(log)
            /\ pc \in {"returned", "raised"}
            /\ Len(sleeps) < i
            /\ ~ (pc = "returned" /\ result = FailureValue)

\* C4 (amended): a blocking status is handled like any other failed
\* attempt: while attempts remain the call sleeps 2^k and tries again, and
\* when the last permitted attempt is blocked the call returns the same
\* failure value as retry exhaustion.
C4_BlockedIsRetriedLikeAnyFailure ==
    (InFetch /\ Len(log) > 0 /\ IsBlocked(Last(log))) =>
        IF Len(log) < max_retries
        THEN \/ pc = "backoff"
             \/ (pc = "attempt" /\ Len(sleeps) = Len(log)
                 /\ Last(sleeps) = 2 ^ (Len(log) - 1))
        ELSE \/ (pc = "attempt" /\ attempt = max_retries)
             \/ (pc = "returned" /\ result = FailureValue)

\* C4 witness: three attempts, each answered 403: two sleeps were taken and
\* the call returned the failure value of exhaustion
C4_Witness ==
    /\ pc = "returned"
    /\ max_retries = 3
    /\ Len(log) = 3
    /\ \A i \in 1..3 : IsBlocked(log[i])
    /\ sleeps = << 1, 2 >>
    /\ result = FailureValue

\* the candidates of a list that relay the test request and pass the
\* metadata check
PassBoth(p) == relays[p] /\ metaInfo[p] = "status_true"

\* C5 (as claimed): when is_good_proxy has returned, its result holds the
\* candidates that relay the test request and pass the metadata check, and
\* no others.
C5_VettingKeepsExactlyThePassing ==
    (pc = "ready" /\ use_proxies) =>
        proxy_file = SelectSeq(vetCopy, PassBoth)

\* C6 (as claimed): an error while probing a candidate never leaves
\* is_good_proxy: vetting ends by returning, after the last candidate was
\* probed.
C6_VettingNeverRaises ==
    /\ pc # "crashed"
    /\ (use_proxies /\ pc \notin {"new", "vetting"}) =>
           vetIdx = Len(vetCopy) + 1

LowerSeq ==
    << "a", "b", "c", "d", "e", "f", "g", "h", "i", "j", "k", "l", "m", "n",
    "o", "p", "q", "r", "s", "t", "u", "v", "w", "x", "y", "z" >>
UpperSeq ==
    << "A", "B", "C", "D", "E", "F", "G", "H", "I", "J", "K", "L", "M", "N",
    "O", "P", "Q", "R", "S", "T", "U", "V", "W", "X", "Y", "Z" >>

Lower == Range(LowerSeq)
Upper == Range(UpperSeq)
Letters == Lower \cup Upper
Digits == {"0", "1", "2", "3", "4", "5", "6", "7", "8", "9"}

\* the characters of the model in code-point order, as Python compares them
CodePointOrder ==
    << "\n", " ", "!", "#", "$", "%", "&", "'", "*", "+", "-", ".", "/",
    "0", "1", "2", "3", "4", "5", "6", "7", "8", "9", ":", "<", "=", ">",
    "?", "@", "A", "B", "C", "D", "E", "F", "G", "H", "I", "J", "K", "L",
    "M", "N", "O", "P", "Q", "R", "S", "T", "U", "V", "W", "X", "Y", "Z",
    "^", "_", "a", "b", "c", "d", "e", "f", "g", "h", "i", "j", "k",
    "l", "m", "n", "o", "p", "q", "r", "s", "t", "u", "v", "w", "x", "y",
    "z", "{", "|", "}", "~" >>

Ord(c) == CHOOSE i \in 1..Len(CodePointOrder) : CodePointOrder[i] = c

\* a < b for two str values
RECURSIVE StrLess(_, _)
StrLess(a, b) ==
    IF b = << >> THEN FALSE
    ELSE IF a = << >> THEN TRUE
    ELSE IF Head(a) = Head(b) THEN StrLess(Tail(a), Tail(b))
    ELSE Ord(Head(a)) < Ord(Head(b))

\* str.lower() on the letters of the model
LowerChar(c) ==
    IF c \in Upper
    THEN LowerSeq[CHOOSE i \in 1..Len(UpperSeq) : UpperSeq[i] = c]
    ELSE c
StrLower(e) == [i \in 1..Len(e) |-> LowerChar(e[i])]

\* `c in s`
Contains(s, c) == \E i \in 1..Len(s) : s[i] = c

\* s.startswith(prefix)
StartsWith(s, prefix) ==
    Len(s) >= Len(prefix) /\ SubSeq(s, 1, Len(prefix)) = prefix

\* s.split(sep) for a one-character separator: the list of pieces
RECURSIVE SplitFrom(_, _, _)
SplitFrom(s, sep, piece) ==
    IF s = << >> THEN << piece >>
    ELSE IF Head(s) = sep THEN << piece >> \o SplitFrom(Tail(s), sep, << >>)
    ELSE SplitFrom(Tail(s), sep, Append(piece, Head(s)))
Split(s, sep) == SplitFrom(s, sep, << >>)

\* sorted(list(set(xs))): the distinct elements in ascending order
RECURSIVE SortSet(_)
SortSet(S) ==
    IF S = {} THEN << >>
    ELSE LET m == CHOOSE x \in S : \A y \in S \ {x} : StrLess(x, y)
         IN << m >> \o SortSet(S \ {m})
sorted_list_set(xs) == SortSet(Range(xs))

(***************************************************************************)
(* Email validation: src/src/utils.py, is_valid_email / validate_emails.   *)
(***************************************************************************)
\* the class of the local part: a-z, 0-9 and punctuation marks (the grave
\* accent, the nineteenth of them, is no character of the model)
AtomChars ==
    Lower \cup Digits \cup
    {"!", "#", "$", "%", "&", "'", "*", "+", "/", "=", "?", "^", "_",
     "{", "|", "}", "~", "-"}

\* [a-z0-9] and [a-z0-9-]
LabelEdgeChars == Lower \cup Digits
LabelChars == LabelEdgeChars \cup {"-"}

\* [atom]+
IsAtom_also_empty(piece) == \A i \in 1..Len(piece) : piece[i] \in AtomChars
IsAtom(piece) ==
    piece # << >> /\ \A i \in 1..Len(piece) : piece[i] \in AtomChars

\* [a-z0-9](?:[a-z0-9-]*[a-z0-9])?
IsLabel(piece) ==
    /\ piece # << >>
    /\ \A i \in 1..Len(piece) : piece[i] \in LabelChars
    /\ piece[1] \in LabelEdgeChars
    /\ piece[Len(piece)] \in LabelEdgeChars

\* `$` without re.MULTILINE also matches before a newline that ends the
\* string
DropFinalNewline(e) ==
    IF e # << >> /\ e[Len(e)] = "\n" THEN SubSeq(e, 1, Len(e) - 1) ELSE e

\* re.match of the pattern of is_valid_email:
\* ^atom(\.atom)*@(label\.)+label$
MatchesPattern(email) ==
    LET e == DropFinalNewline(email)
        parts == Split(e, "@")
    IN  /\ Len(parts) = 2
        /\ LET local == Split(parts[1], ".")
               labels == Split(parts[2], ".")
           IN  /\ \A i \in 1..Len(local) : IsAtom(local[i])
               /\ Len(labels) >= 2
               /\ \A i \in 1..Len(labels) : IsLabel(labels[i])

\* is_valid_email: the pattern is written in lower case and re.match is
\* called without flags
is_valid_email(email) == email # << >> /\ MatchesPattern(email)

\* validate_emails: [email for email in emails if is_valid_email(email)]
validate_emails_nothing_dropped(emails) == emails
validate_emails(emails) == SelectSeq(emails, is_valid_email)

(***************************************************************************)
(* Validation of a candidate list, and the sorted(list(set(...))) that     *)
(* extract_emails_from_webpage applies to the validated list               *)
(* (src/src/email_extractor.py:181-182, src/src/utils_email.py:283-284).   *)
(***************************************************************************)
\* no session runs in the specifications of the string functions
NoSession ==
    /\ cls = "EmailExtractor"
    /\ use_proxies = FALSE
    /\ max_retries = 0
    /\ proxy_file = << >>
    /\ relays = [p \in Proxies |-> TRUE]
    /\ metaInfo = [p \in Proxies |-> "status_true"]
    /\ Fresh

sessionVars == << envVars, vetVars, fetchVars, pc, batch >>

\* candidate lists are drawn from these strings ...
SampleEmails ==
    { << "a", "@", "x", ".", "i", "o" >>,
      << "b", "@", "x", ".", "i", "o" >>,
      << "A", "@", "x", ".", "i", "o" >>,
      << "a", "@", "x", ".", "i", "o", "\n" >>,
      << "a", ".", "b", "@", "x", "-", "y", ".", "i", "o" >>,
      << "a", "@", "x" >> }

\* ... and single candidates from every string over these characters
Alphabet == {"a", "B", ".", "@", "-"}
StringsUpTo(n) == UNION {[1..k -> Alphabet] : k \in 0..n}

\* ... and from the addresses of src/tests/test_extractor.py
test_valid_emails ==
    {
      << "t", "e", "s", "t", "@", "e", "x", "a", "m", "p", "l", "e", ".",
         "c", "o", "m" >>,
      << "u", "s", "e", "r", ".", "n", "a", "m", "e", "@", "d", "o", "m",
         "a", "i", "n", ".", "c", "o", ".", "u", "k" >>,
      << "u", "s", "e", "r", "+", "t", "a", "g", "@", "e", "x", "a", "m",
         "p", "l", "e", ".", "o", "r", "g" >>,
      << "u", "s", "e", "r", "1", "2", "3", "@", "t", "e", "s", "t", "-",
         "d", "o", "m", "a", "i", "n", ".", "c", "o", "m" >> }
test_invalid_emails ==
    {
      << "i", "n", "v", "a", "l", "i", "d", "-", "e", "m", "a", "i",
         "l" >>,
      << "@", "e", "x", "a", "m", "p", "l", "e", ".", "c", "o", "m" >>,
      << "t", "e", "s", "t", "@" >>,
      << "t", "e", "s", "t", "@", ".", "c", "o", "m" >>,
      << "t", "e", "s", "t", ".", ".", "t", "e", "s", "t", "@", "e", "x",
         "a", "m", "p", "l", "e", ".", "c", "o", "m" >>,
      <<  >> }
test_validate_emails_list ==
    <<
      << "v", "a", "l", "i", "d", "@", "e", "x", "a", "m", "p", "l", "e",
         ".", "c", "o", "m" >>,
      << "i", "n", "v", "a", "l", "i", "d", "-", "e", "m", "a", "i",
         "l" >>,
      << "a", "n", "o", "t", "h", "e", "r", "@", "t", "e", "s", "t", ".",
         "o", "r", "g" >>,
      << "@", "i", "n", "v", "a", "l", "i", "d", ".", "c", "o", "m" >> >>

InitValidate ==
    /\ NoSession
    /\ batch = << >>
    /\ \E emails \in SeqsUpTo(SampleEmails, MaxEmails)
                     \cup {<< e >> : e \in StringsUpTo(MaxStrLen)}
                     \cup {<< e >> : e \in test_valid_emails}
                     \cup {<< e >> : e \in test_invalid_emails}
                     \cup {test_validate_emails_list} :
           txt = [phase |-> "input", emails |-> emails, valid |-> << >>,
                  unique |-> << >>]

\* valid_emails = validate_emails(emails)
\* unique_emails = sorted(list(set(valid_emails)))
validate_emails_call ==
    /\ txt.phase = "input"
    /\ txt' = [txt EXCEPT !.phase = "validated",
                          !.valid = validate_emails(txt.emails),
                          !.unique = sorted_list_set(validate_emails(txt.emails))]
    /\ UNCHANGED sessionVars

NextValidate == validate_emails_call

SpecValidate == InitValidate /\ [][NextValidate]_vars

\* the distinct candidates of a list that is_valid_email accepts
Matching(emails) == {e \in Range(emails) : is_valid_email(e)}

\* the positions of a list whose candidate is_valid_email accepts
MatchingAt(emails) == {i \in 1..Len(emails) : is_valid_email(emails[i])}

\* the position of the k-th accepted candidate
KthMatching(emails, k) ==
    CHOOSE i \in MatchingAt(emails) :
        Cardinality({j \in MatchingAt(emails) : j < i}) = k - 1

Ascending(xs) == \A i \in 1..(Len(xs) - 1) : StrLess(xs[i], xs[i + 1])

\* C9 (as claimed): the output of validate_emails holds each matching
\* string exactly once, in ascending order.
C9_ValidateIsSortedUnique ==
    txt.phase = "validated" =>
        /\ Range(txt.valid) = Matching(txt.emails)
        /\ Len(txt.valid) = Cardinality(Matching(txt.emails))
        /\ Ascending(txt.valid)

\* C9 (amended): validate_emails returns the matching candidates in input
\* order, one per matching position; the sorted(list(set(...))) that the
\* extractor applies to that list holds each matching string exactly once,
\* in ascending order.
C9_ValidateFiltersThenExtractorSorts ==
    /\ txt.phase = "validated" =>
           /\ Len(txt.valid) = Cardinality(MatchingAt(txt.emails))
           /\ \A k \in 1..Len(txt.valid) :
                  txt.valid[k] = txt.emails[KthMatching(txt.emails, k)]
    /\ txt.phase = "validated" =>
           /\ Range(txt.unique) = Matching(txt.emails)
           /\ Len(txt.unique) = Cardinality(Matching(txt.emails))
           /\ Ascending(txt.unique)

\* C9 witness: a duplicate at two positions around a smaller string; the
\* validated list keeps all three, the extractor's list holds two, sorted
C9_Witness ==
    /\ txt.phase = "validated"
    /\ txt.emails = << << "b", "@", "x", ".", "i", "o" >>,
                       << "a", "@", "x", ".", "i", "o" >>,
                       << "b", "@", "x", ".", "i", "o" >> >>
    /\ txt.valid = txt.emails
    /\ txt.unique = << << "a", "@", "x", ".", "i", "o" >>,
                       << "b", "@", "x", ".", "i", "o" >> >>

\* C10 (as claimed): an address that fits the grammar when letter case is
\* ignored is returned by validate_emails as it was given.
C10_CaseInsensitiveValidation ==
    (/\ txt.phase = "validated"
     /\ Len(txt.emails) = 1
     /\ is_valid_email(StrLower(txt.emails[1])))
    => txt.valid = txt.emails

(***************************************************************************)
(* Harvesting addresses from text: extract_emails_from_text of             *)
(* src/src/utils.py:161-179 and of src/email_extractor.py:11-15.           *)
(***************************************************************************)
\* \w of a str pattern, on the characters of the model
WordChars == Letters \cup Digits \cup {"_"}
\* [a-zA-Z0-9._%+-] and [a-zA-Z0-9.-]
HarvestLocalChars == Letters \cup Digits \cup {".", "_", "%", "+", "-"}
HarvestDomainChars == Letters \cup Digits \cup {".", "-"}

\* the first position from i on whose character is outside the class
RECURSIVE RunEnd(_, _, _)
RunEnd(text, i, class) ==
    IF i > Len(text) \/ text[i] \notin class THEN i
    ELSE RunEnd(text, i + 1, class)

\* \b between the characters i - 1 and i
WordBoundary(text, i) ==
    (i > 1 /\ text[i - 1] \in WordChars)
        # (i <= Len(text) /\ text[i] \in WordChars)

Max(S) == CHOOSE x \in S : \A y \in S : y <= x

\* The match of local+ @ domain+ \. letters{2,} that starts at i, as the
\* backtracking matcher finds it: 0 when there is none, else the position
\* after its last character.  `bounded` says whether the pattern is wrapped
\* in \b.  The local part is the whole run of its class (only then can an @
\* follow); the domain is greedy, so the dot is the last one after which
\* two or more letters end the match.
MatchEnd(text, i, bounded) ==
    LET j == RunEnd(text, i, HarvestLocalChars) IN
    IF \/ bounded /\ ~ WordBoundary(text, i)
       \/ j = i
       \/ j > Len(text)
       \/ text[j] # "@"
    THEN 0
    ELSE LET r == RunEnd(text, j + 1, HarvestDomainChars)
             TldEnd(d) == RunEnd(text, d + 1, Letters)
             ds == {d \in (j + 2)..(r - 1) :
                       /\ text[d] = "."
                       /\ TldEnd(d) - (d + 1) >= 2
                       /\ bounded => WordBoundary(text, TldEnd(d))}
         IN  IF ds = {} THEN 0 ELSE TldEnd(Max(ds))

\* re.findall: the matches from left to right, none overlapping
RECURSIVE FindAllFrom(_, _, _)
FindAllFrom(text, pos, bounded) ==
    IF pos > Len(text) THEN << >>
    ELSE LET m == MatchEnd(text, pos, bounded) IN
         IF m = 0 THEN FindAllFrom(text, pos + 1, bounded)
         ELSE << SubSeq(text, pos, m - 1) >> \o FindAllFrom(text, m, bounded)
re_findall(text, bounded) == FindAllFrom(text, 1, bounded)

\* src/src/utils.py: the \b pattern, then validate_emails
extract_emails_from_text(text) ==
    IF text = << >> THEN << >>
    ELSE validate_emails(re_findall(text, TRUE))

\* src/email_extractor.py: the bare pattern, nothing validated
script_extract_emails_from_text(text) == re_findall(text, FALSE)

(***************************************************************************)
(* extract_emails_from_webpage, in its three implementations:              *)
(*   EmailExtractor   src/src/email_extractor.py:121-191                   *)
(*   ExtractionEmail  src/src/utils_email.py:162-293                       *)
(*   script           src/email_extractor.py:80-123                        *)
(* The fetched content is the input.  A parsed document is a record of the *)
(* elements the strategies look at, in document order:                     *)
(*   company_link  the text of a.link.fw-700.fs-24, or NoElem              *)
(*   anchors       the other <a> elements, [href, text]                    *)
(*   data          elements with one data attribute, [attr, value]         *)
(*   classed       elements with one class, [class, text]                  *)
(*   text          the text outside of those elements                      *)
(***************************************************************************)
MaxAnchors == 2
MaxTagged == 1

\* markers for an element and an attribute the document does not have (no
\* text of the model is a one-element list of a longer string)
NoElem == << "<no element>" >>
NoAttr == << "<no attribute>" >>
\* get_webpage_content returned None or an empty text
NoContent == [text |-> << >>]
Implementations == {"EmailExtractor", "ExtractionEmail", "script"}

\* str.strip()
Whitespace == {" ", "\n"}
RECURSIVE LStrip(_)
LStrip(s) ==
    IF s # << >> /\ Head(s) \in Whitespace THEN LStrip(Tail(s)) ELSE s
RECURSIVE RStrip(_)
RStrip(s) ==
    IF s # << >> /\ s[Len(s)] \in Whitespace
    THEN RStrip(SubSeq(s, 1, Len(s) - 1))
    ELSE s
Strip(s) == RStrip(LStrip(s))

\* the concatenation of a list of lists (emails.extend in a loop, ''.join)
RECURSIVE Flatten(_)
Flatten(ls) == IF ls = << >> THEN << >> ELSE Head(ls) \o Flatten(Tail(ls))

MAILTO == << "m", "a", "i", "l", "t", "o", ":" >>
\* href[7:]
MailtoSlice == 7

DATA_EMAIL_ATTRS == << "data-email", "data-mail", "data-e-mail" >>
EMAIL_CLASSES ==
    << "email", "mail", "e-mail", "contact-email", "contact-mail" >>
script_email_classes == << "email", "mail", "e-mail", "contact-email" >>

\* soup.find_all('a'): the company link is an anchor as well
AllAnchors(page) ==
    (IF page.company_link = NoElem THEN << >>
     ELSE << [href |-> NoAttr, text |-> page.company_link] >>)
    \o page.anchors

\* soup.get_text()
get_text(page) ==
    Flatten([i \in 1..Len(AllAnchors(page)) |-> AllAnchors(page)[i].text])
    \o Flatten([i \in 1..Len(page.classed) |-> page.classed[i].text])
    \o page.text

\* 1. a[href^="mailto:"]: the target without the prefix and without what
\*    follows the first '?'; ExtractionEmail strips it as well
mailto_email(href, strip) ==
    LET email == Split(SubSeq(href, MailtoSlice + 1, Len(href)), "?")[1] IN
    IF strip THEN Strip(email) ELSE email
extract_emails_from_mailto_links(page, strip) ==
    LET links == AllAnchors(page) IN
    Flatten([i \in 1..Len(links) |->
        IF /\ links[i].href # NoAttr
           /\ StartsWith(links[i].href, MAILTO)
           /\ Contains(mailto_email(links[i].href, strip), "@")
        THEN << mailto_email(links[i].href, strip) >>
        ELSE << >>])

\* the extract_emails_from_text that the implementation calls
harvest(text, script) ==
    IF script THEN script_extract_emails_from_text(text)
    ELSE extract_emails_from_text(text)

\* 2. the stripped text of every anchor that holds '@' and '.'
extract_emails_from_links(page, script) ==
    LET links == AllAnchors(page) IN
    Flatten([i \in 1..Len(links) |->
        IF /\ Contains(Strip(links[i].text), "@")
           /\ Contains(Strip(links[i].text), ".")
        THEN harvest(Strip(links[i].text), script)
        ELSE << >>])

\* 3. the values of the data attributes
extract_emails_from_data_attrs(page, script) ==
    Flatten([i \in 1..Len(page.data) |->
        IF page.data[i].attr \in Range(DATA_EMAIL_ATTRS)
        THEN harvest(page.data[i].value, script)
        ELSE << >>])

\* 4. for every class name of the list, the text of its elements
extract_emails_from_classes(page, classes, script) ==
    Flatten([c \in 1..Len(classes) |->
        Flatten([i \in 1..Len(page.classed) |->
            IF page.classed[i].class = classes[c]
            THEN harvest(page.classed[i].text, script)
            ELSE << >>])])

\* strategies 1-4 and, for the two classes, 5: the text of the whole page
collected(page, strip, classes, script, whole_page) ==
    extract_emails_from_mailto_links(page, strip)
    \o extract_emails_from_links(page, script)
    \o extract_emails_from_data_attrs(page, script)
    \o extract_emails_from_classes(page, classes, script)
    \o (IF whole_page THEN harvest(get_text(page), script) ELSE << >>)

\* EmailExtractor: soup.find(...).text raises AttributeError when the company
\* link is missing, and the handler of line 189 returns company, []
EmailExtractor_extract(content) ==
    IF content = NoContent THEN [company |-> << >>, emails |-> << >>]
    ELSE IF content.company_link = NoElem
    THEN [company |-> << >>, emails |-> << >>]
    ELSE [company |-> content.company_link,
          emails |-> sorted_list_set(validate_emails(
              collected(content, FALSE, EMAIL_CLASSES, FALSE, TRUE)))]

\* ExtractionEmail: the emails of the result (the company name is found by
\* _extract_company_name, which raises nothing)
ExtractionEmail_extract(content) ==
    IF content = NoContent THEN << >>
    ELSE sorted_list_set(validate_emails(
             collected(content, TRUE, EMAIL_CLASSES, FALSE, TRUE)))

\* the script: sorted(list(set(emails))), nothing validated
script_extract(content) ==
    IF content = NoContent THEN << >>
    ELSE sorted_list_set(
             collected(content, FALSE, script_email_classes, TRUE, FALSE))

(***************************************************************************)
(* The specification of the extraction: a fetched content and one of the   *)
(* implementations; its action is the call.                                *)
(***************************************************************************)
Hrefs ==
    { NoAttr,
      MAILTO \o << "a", "@", "x", ".", "i", "o", "?", "s" >>,
      MAILTO \o << "a", "@", "b" >>,
      MAILTO \o << " ", "b", "@", "x", ".", "i", "o" >> }
AnchorTexts == { << >>, << " ", "A", "@", "x", ".", "i", "o", ",", " ", "c", "@", "x", ".", "i", "o", " " >> }
DataElements ==
    { [attr |-> a, value |-> << "a", ".", ".", "b", "@", "x", ".", "i", "o" >>] :
          a \in {"data-mail", "data-id"} }
ClassedElements ==
    { [class |-> c, text |-> << "c", "@", "x", ".", "i", "o" >>] :
          c \in {"mail", "contact-mail"} }
PageTexts == { << >>, << "d", "@", "x", ".", "i", "o", "." >> }
CompanyLinks == { NoElem, << "A", "c", "m", "e" >> }

Pages ==
    [ company_link : CompanyLinks,
      anchors : SeqsUpTo([href : Hrefs, text : AnchorTexts], MaxAnchors),
      data : SeqsUpTo(DataElements, MaxTagged),
      classed : SeqsUpTo(ClassedElements, MaxTagged),
      text : PageTexts ]

InitExtract ==
    /\ NoSession
    /\ batch = << >>
    /\ \E impl \in Implementations, content \in Pages \cup {NoContent} :
           txt = [phase |-> "fetched", impl |-> impl, content |-> content,
                  company |-> None, emails |-> << >>]

EmailExtractor_extract_emails_from_webpage ==
    /\ txt.phase = "fetched"
    /\ txt.impl = "EmailExtractor"
    /\ txt' = [txt EXCEPT
                  !.phase = "extracted",
                  !.company = EmailExtractor_extract(txt.content).company,
                  !.emails = EmailExtractor_extract(txt.content).emails]
    /\ UNCHANGED sessionVars

ExtractionEmail_extract_emails_from_webpage ==
    /\ txt.phase = "fetched"
    /\ txt.impl = "ExtractionEmail"
    /\ txt' = [txt EXCEPT !.phase = "extracted",
                          !.emails = ExtractionEmail_extract(txt.content)]
    /\ UNCHANGED sessionVars

script_extract_emails_from_webpage ==
    /\ txt.phase = "fetched"
    /\ txt.impl = "script"
    /\ txt' = [txt EXCEPT !.phase = "extracted",
                          !.emails = script_extract(txt.content)]
    /\ UNCHANGED sessionVars

NextExtract ==
    \/ EmailExtractor_extract_emails_from_webpage
    \/ ExtractionEmail_extract_emails_from_webpage
    \/ script_extract_emails_from_webpage

SpecExtract == InitExtract /\ [][NextExtract]_vars

\* C8: every email of a result of extract_emails_from_webpage, whichever of
\* the three implementations produced it, satisfies is_valid_email.
C8_ResultHoldsOnlyValidEmails ==
    txt.phase = "extracted" =>
        \A i \in 1..Len(txt.emails) : is_valid_email(txt.emails[i])

\* C8, for the two classes only: what EmailExtractor and ExtractionEmail
\* return has passed validate_emails.
C8_ClassesReturnOnlyValidEmails ==
    (txt.phase = "extracted" /\ txt.impl # "script") =>
        \A i \in 1..Len(txt.emails) : is_valid_email(txt.emails[i])


(***************************************************************************)
(* C11: what validate_emails keeps and what is_valid_email rejects.        *)
(***************************************************************************)
\* how often a string occurs in a list
Occurrences(xs, e) == Cardinality({i \in 1..Len(xs) : xs[i] = e})

\* the part before the first '@' (the whole string when there is none)
LocalPart(e) == Split(e, "@")[1]

\* the shapes the claim lists as rejected: empty string, no '@', empty local
\* part, empty domain, domain that starts with a dot, two consecutive dots
\* in the local part
NamedAsRejected(e) ==
    \/ e = << >>
    \/ ~ Contains(e, "@")
    \/ e[1] = "@"
    \/ e[Len(e)] = "@"
    \/ \E i \in 1..(Len(e) - 1) : e[i] = "@" /\ e[i + 1] = "."
    \/ \E i \in 1..(Len(LocalPart(e)) - 1) :
           LocalPart(e)[i] = "." /\ LocalPart(e)[i + 1] = "."

\* C11: validate_emails returns the input elements that is_valid_email
\* accepts, as often as they occur in the input, and nothing else; none of
\* the shapes named as rejected is returned; the lower-case addresses of the
\* test (inner dot, '+' tag, digits, several labels, inner hyphen) are
\* returned.
C11_ValidateKeepsExactlyTheValid ==
    txt.phase = "validated" =>
        /\ Range(txt.valid) \subseteq Range(txt.emails)
        /\ \A e \in Range(txt.emails) :
               /\ Occurrences(txt.valid, e) =
                      IF is_valid_email(e) THEN Occurrences(txt.emails, e)
                      ELSE 0
               /\ NamedAsRejected(e) => e \notin Range(txt.valid)
               /\ e \in test_valid_emails => e \in Range(txt.valid)
               /\ e \in test_invalid_emails => e \notin Range(txt.valid)

\* C11 witness: the list of test_validate_emails_list, of which the two
\* valid addresses are returned
C11_Witness ==
    /\ txt.phase = "validated"
    /\ txt.emails = test_validate_emails_list
    /\ txt.valid = << test_validate_emails_list[1],
                      test_validate_emails_list[3] >>


(***************************************************************************)
(* normalize_url: src/src/utils.py:142-158.                                *)
(***************************************************************************)
MaxUrlParts == 3

HTTP == << "h", "t", "t", "p", ":", "/", "/" >>
HTTPS == << "h", "t", "t", "p", "s", ":", "/", "/" >>
EXAMPLE_COM == << "e", "x", "a", "m", "p", "l", "e", ".", "c", "o", "m" >>

\* url.startswith(('http://', 'https://'))
HasScheme(url) == StartsWith(url, HTTP) \/ StartsWith(url, HTTPS)

\* `if not url: return url`, then strip, then the prefix test
normalize_url_without_strip(url) ==
    IF url = << >> THEN url
    ELSE IF ~ HasScheme(url) THEN HTTPS \o url
    ELSE url
normalize_url(url) ==
    IF url = << >> THEN url
    ELSE IF ~ HasScheme(Strip(url)) THEN HTTPS \o Strip(url)
    ELSE Strip(url)

\* the urls of the specification: up to MaxUrlParts of these pieces in a row
UrlPieces == { HTTP, HTTPS, EXAMPLE_COM, << " " >>, << "/", "p" >> }
Urls == { Flatten(ps) : ps \in SeqsUpTo(UrlPieces, MaxUrlParts) }

InitNormalize ==
    /\ NoSession
    /\ batch = << >>
    /\ \E url \in Urls :
           txt = [phase |-> "input", url |-> url, normalized |-> << >>,
                  again |-> << >>]

\* normalize_url(url), and normalize_url of what it returned
normalize_url_call ==
    /\ txt.phase = "input"
    /\ txt' = [txt EXCEPT
                  !.phase = "normalized",
                  !.normalized = normalize_url(txt.url),
                  !.again = normalize_url(normalize_url(txt.url))]
    /\ UNCHANGED sessionVars

NextNormalize == normalize_url_call

SpecNormalize == InitNormalize /\ [][NextNormalize]_vars

\* C12 (as claimed): an input that starts with http:// or https:// is
\* returned unchanged, any other input is returned with https:// prepended,
\* and normalizing twice gives what normalizing once gives.
C12_NormalizeUnchangedOrPrepended ==
    txt.phase = "normalized" =>
        /\ HasScheme(txt.url) => txt.normalized = txt.url
        /\ ~ HasScheme(txt.url) => txt.normalized = HTTPS \o txt.url
        /\ txt.again = txt.normalized

\* no whitespace at either end
Stripped(s) ==
    s = << >> \/ (s[1] \notin Whitespace /\ s[Len(s)] \notin Whitespace)

\* C12 (amended): the empty string is returned as it is; any other input
\* is stripped of surrounding whitespace first, and the stripped string is
\* returned unchanged when it starts with http:// or https:// and with
\* https:// prepended otherwise; example.com gives https://example.com,
\* https://example.com gives itself; normalizing twice gives what
\* normalizing once gives.
C12_NormalizeStripsThenPrepends ==
    txt.phase = "normalized" =>
        /\ txt.url = << >> => txt.normalized = << >>
        /\ txt.url # << >> =>
               /\ HasScheme(txt.normalized)
               /\ Stripped(txt.normalized)
               /\ \/ txt.normalized = Strip(txt.url)
                  \/ /\ ~ HasScheme(Strip(txt.url))
                     /\ txt.normalized = HTTPS \o Strip(txt.url)
        /\ (Stripped(txt.url) /\ HasScheme(txt.url))
               => txt.normalized = txt.url
        /\ txt.url = EXAMPLE_COM => txt.normalized = HTTPS \o EXAMPLE_COM
        /\ txt.url = HTTPS \o EXAMPLE_COM => txt.normalized = txt.url
        /\ txt.again = txt.normalized

\* C12 witness: an input with surrounding whitespace and no scheme
C12_Witness ==
    /\ txt.phase = "normalized"
    /\ txt.url = << " " >> \o EXAMPLE_COM \o << " " >>
    /\ txt.normalized = HTTPS \o EXAMPLE_COM
    /\ txt.again = txt.normalized


(***************************************************************************)
(* Batch runs.  Three loops walk over a list of identifiers:               *)
(*   process_ogrn_list  ExtractionEmail, src/src/utils_email.py:337-377    *)
(*   process_category   EmailExtractor, src/src/email_extractor.py:222-283 *)
(*   main_file          the --file branch of main,                         *)
(*                      src/src/email_extractor.py:387-410                 *)
(* The variable batch holds the state of one run:                          *)
(*   runner     which of the three loops                                   *)
(*   ids        the list the loop walks over (OGRN values or urls)         *)
(*   delay_ok   is the configured delay a value time.sleep accepts         *)
(*   i          the 1-based position of the loop                           *)
(*   pos        the statement the run is at                                *)
(*   company, emails   the locals of the identifier in work                *)
(*   all_emails, results   what the loop has accumulated                   *)
(*   stats      the ExtractionStats counters                               *)
(*   db         the rows of the companies and emails tables                *)
(*   fetched    history: [i, url] of every get_webpage_content call        *)
(*   slept      history: the positions after which time.sleep returned     *)
(*   hist       history: how the work on each identifier ended             *)
(*   returned   the value the run returned, None before                    *)
(***************************************************************************)
MaxBatch == 3

\* src/src/utils_email.py:33-36
OGRN_LENGTH_COMPANY == 13
OGRN_LENGTH_PEOPLE == 15
BASE_URL_COMPANY == << "h", "t", "t", "p", "s", ":", "/", "/", "c", "o", "m", "p", "a", "n", "i", "u", "m", ".", "r", "u", "/", "i", "d" >>
BASE_URL_PEOPLE == << "h", "t", "t", "p", "s", ":", "/", "/", "c", "o", "m", "p", "a", "n", "i", "u", "m", ".", "r", "u", "/", "p", "e", "o", "p", "l", "e", "/", "i", "n", "n" >>
CONTACTS == << "/", "c", "o", "n", "t", "a", "c", "t", "s" >>

\* An OGRN value of the list: its Python type and, in repr, what str(ogrn)
\* (for a float: str(int(float(ogrn)))) gives; a float that is NaN or
\* infinite has no such text, int() raises for it
NAN == << "n", "a", "n" >>
Ogrns ==
    { [type |-> "str", repr |-> << "1", "0", "2", "7", "7", "0", "0", "1", "3", "2", "1", "9", "5" >>],
      [type |-> "str", repr |-> << "3", "0", "4", "5", "0", "0", "1", "1", "6", "0", "0", "0", "1", "5", "7" >>],
      [type |-> "str", repr |-> << "1", "0", "2", "7", "7", "0", "0", "1", "3", "2", "1", "9" >>],
      [type |-> "str", repr |-> << "1", "0", "2", "7", "7", "O", "O", "1", "3", "2", "1", "9", "5" >>],
      [type |-> "float", repr |-> << "1", "0", "2", "7", "7", "0", "0", "1", "3", "2", "1", "9", "5" >>],
      [type |-> "float", repr |-> NAN] }

\* ogrn_str = str(int(float(ogrn))) if isinstance(ogrn, float) else str(ogrn)
ogrn_str_raises(ogrn) == ogrn.type = "float" /\ ogrn.repr = NAN
ogrn_str(ogrn) == ogrn.repr

\* ogrn_to_url: only the length of the text is looked at
ogrn_to_url(ogrn) ==
    IF Len(ogrn_str(ogrn)) = OGRN_LENGTH_COMPANY
    THEN BASE_URL_COMPANY \o << "/" >> \o ogrn_str(ogrn) \o CONTACTS
    ELSE IF Len(ogrn_str(ogrn)) = OGRN_LENGTH_PEOPLE
    THEN BASE_URL_PEOPLE \o << "/" >> \o ogrn_str(ogrn)
    ELSE << >>


\* the documents of the batch specifications
ACME == << "A", "c", "m", "e" >>
A_X_IO == << "a", "@", "x", ".", "i", "o" >>
B_X_IO == << "b", "@", "x", ".", "i", "o" >>
BatchPages ==
    { [company_link |-> ACME,
       anchors |-> << [href |-> MAILTO \o A_X_IO, text |-> << >>] >>,
       data |-> << >>, classed |-> << >>, text |-> << >>],
      [company_link |-> ACME,
       anchors |-> << [href |-> MAILTO \o B_X_IO, text |-> << >>],
                      [href |-> MAILTO \o A_X_IO, text |-> << >>] >>,
       data |-> << >>, classed |-> << >>, text |-> A_X_IO],
      [company_link |-> ACME, anchors |-> << >>,
       data |-> << >>, classed |-> << >>, text |-> << >>],
      [company_link |-> NoElem,
       anchors |-> << [href |-> MAILTO \o A_X_IO, text |-> << >>] >>,
       data |-> << >>, classed |-> << >>, text |-> << >>] }

\* What a call of ExtractionEmail.extract_emails_from_webpage gives its
\* caller.  "raise": an exception left get_webpage_content; @logger.catch
\* logs it and the call returns None.  "result": the pair returned, an
\* empty name and no emails without content or after a caught exception,
\* else the name found and the emails of the document.
ExtractionEmailOutcomes ==
    { [kind |-> "raise", company |-> << >>, emails |-> << >>],
      [kind |-> "result", company |-> << >>, emails |-> << >>] }
    \cup { [kind |-> "result", company |-> ACME,
            emails |-> ExtractionEmail_extract(c)] : c \in BatchPages }

NoStats ==
    [total_urls |-> 0, successful_extractions |-> 0,
     failed_extractions |-> 0, total_emails_found |-> 0,
     cat_urls |-> 0, cat_successful |-> 0, cat_failed |-> 0,
     cat_emails |-> 0]
NoDb == [companies |-> {}, emails |-> {}]

\* a run before its first statement
NewBatch(runner, ids, delay_ok) ==
    [runner |-> runner, ids |-> ids, delay_ok |-> delay_ok, i |-> 1,
     pos |-> "start", company |-> None, emails |-> << >>,
     all_emails |-> << >>, results |-> << >>, stats |-> NoStats,
     db |-> NoDb, fetched |-> << >>, slept |-> << >>, hist |-> << >>,
     returned |-> None]

\* batch specifications leave the session and the string state alone
nonBatchVars == << envVars, vetVars, fetchVars, pc, txt >>

\* results.append({"name": company, "email": email}) for every email, or
\* one row with an empty email
result_rows(company, emails) ==
    IF emails = << >> THEN << [name |-> company, email |-> << >>] >>
    ELSE [k \in 1..Len(emails) |-> [name |-> company, email |-> emails[k]]]

\* One pass of the for loop of process_ogrn_list: ogrn_to_url, `continue`
\* for an empty url, else extract_emails_from_webpage, the rows of the
\* result and, `if idx < total`, the sleep.  Nothing in the loop catches an
\* exception: the int() of a NaN float and the unpacking of the None that
\* @logger.catch returns both leave process_ogrn_list.
process_ogrn_list_iteration ==
    /\ batch.runner = "process_ogrn_list"
    /\ batch.pos \in {"start", "loop"}
    /\ batch.i <= Len(batch.ids)
    /\ LET idx == batch.i
           ogrn == batch.ids[idx]
           url == ogrn_to_url(ogrn)
       IN  IF ogrn_str_raises(ogrn)
           THEN batch' = [batch EXCEPT
                    !.pos = "raised",
                    !.hist = Append(@, [i |-> idx, how |-> "raised"])]
           ELSE IF url = << >>
           THEN batch' = [batch EXCEPT
                    !.pos = "loop", !.i = idx + 1,
                    !.hist = Append(@, [i |-> idx, how |-> "skipped"])]
           ELSE \E o \in ExtractionEmailOutcomes :
                    IF o.kind = "raise"
                    THEN batch' = [batch EXCEPT
                             !.pos = "raised",
                             !.fetched = Append(@, [i |-> idx, url |-> url]),
                             !.hist = Append(@, [i |-> idx, how |-> "raised"])]
                    ELSE batch' = [batch EXCEPT
                             !.pos = "loop", !.i = idx + 1,
                             !.company = o.company, !.emails = o.emails,
                             !.fetched = Append(@, [i |-> idx, url |-> url]),
                             !.results = @ \o result_rows(o.company, o.emails),
                             !.slept = IF idx < Len(batch.ids)
                                       THEN Append(@, idx) ELSE @,
                             !.hist = Append(@, [i |-> idx,
                                                 how |-> "processed"])]
    /\ UNCHANGED nonBatchVars

\* return results
process_ogrn_list_return ==
    /\ batch.runner = "process_ogrn_list"
    /\ batch.pos \in {"start", "loop"}
    /\ batch.i > Len(batch.ids)
    /\ batch' = [batch EXCEPT !.pos = "returned", !.returned = batch.results]
    /\ UNCHANGED nonBatchVars


(***************************************************************************)
(* EmailExtractor.process_single_url, statement by statement, and the two  *)
(* loops around it.                                                        *)
(***************************************************************************)
BatchUrls == {"https://a.example", "https://b.example"}

\* What EmailExtractor.extract_emails_from_webpage gives process_single_url:
\*   raise              an exception left get_webpage_content (it catches
\*                      RequestException only) and so the call
\*   no_content         get_webpage_content returned None: '', []
\*   parsed             the name and the validated emails of the document
\*   error_before_name  an exception in the try block before line 143 has
\*                      assigned company (a missing company link is one):
\*                      the handler of line 189 returns '', []
\*   error_after_name   an exception in the try block after line 143: the
\*                      handler returns the company read so far and []
EmailExtractorOutcomes ==
    { [kind |-> "raise", company |-> << >>, emails |-> << >>],
      [kind |-> "no_content",
       company |-> EmailExtractor_extract(NoContent).company,
       emails |-> EmailExtractor_extract(NoContent).emails] }
    \cup { [kind |-> IF c.company_link = NoElem THEN "error_before_name"
                     ELSE "parsed",
            company |-> EmailExtractor_extract(c).company,
            emails |-> EmailExtractor_extract(c).emails] : c \in BatchPages }
    \cup { [kind |-> "error_after_name", company |-> c.company_link,
            emails |-> << >>] : c \in {p \in BatchPages :
                                           p.company_link # NoElem} }

\* ExtractionStats.update_extraction(category, success, emails_count);
\* in_categories: `if category in self.categories`
update_extraction_all_success(stats, in_categories, success, emails_count) ==
    [stats EXCEPT
        !.successful_extractions = @ + 1,
        !.total_emails_found = @ + emails_count,
        !.cat_successful = IF in_categories THEN @ + 1 ELSE @,
        !.cat_emails = IF in_categories THEN @ + emails_count ELSE @]
update_extraction(stats, in_categories, success, emails_count) ==
    IF success
    THEN [stats EXCEPT
             !.successful_extractions = @ + 1,
             !.total_emails_found = @ + emails_count,
             !.cat_successful = IF in_categories THEN @ + 1 ELSE @,
             !.cat_emails = IF in_categories THEN @ + emails_count ELSE @]
    ELSE [stats EXCEPT
             !.failed_extractions = @ + 1,
             !.cat_failed = IF in_categories THEN @ + 1 ELSE @]

\* the position after the work on identifier i has ended
next_pos(b) == IF b.i < Len(b.ids) THEN "extract" ELSE "finish"

\* process_category up to the loop: no urls, return []; else add_category
\* and total_urls
process_category_start ==
    /\ batch.runner = "process_category"
    /\ batch.pos = "start"
    /\ batch' = IF batch.ids = << >>
                THEN [batch EXCEPT !.pos = "returned", !.returned = << >>]
                ELSE [batch EXCEPT
                         !.pos = "extract",
                         !.stats.cat_urls = Len(batch.ids),
                         !.stats.total_urls = @ + Len(batch.ids)]
    /\ UNCHANGED nonBatchVars

\* the --file branch of main up to the loop
main_file_start ==
    /\ batch.runner = "main_file"
    /\ batch.pos = "start"
    /\ batch' = IF batch.ids = << >>
                THEN [batch EXCEPT !.pos = "returned", !.returned = << >>]
                ELSE [batch EXCEPT !.pos = "extract"]
    /\ UNCHANGED nonBatchVars

\* company, emails = self.extract_emails_from_webpage(url).  An exception
\* leaves process_single_url: process_category catches it, counts a failed
\* extraction and goes on with the next url (the sleep is inside the try
\* block and is skipped); in main it reaches `except Exception` and
\* sys.exit(1).
process_single_url_extract ==
    /\ batch.runner \in {"process_category", "main_file"}
    /\ batch.pos = "extract"
    /\ \E o \in EmailExtractorOutcomes :
           LET b == [batch EXCEPT
                        !.fetched = Append(@, [i |-> batch.i,
                                               url |-> batch.ids[batch.i]])]
           IN  IF o.kind # "raise"
               THEN batch' = [b EXCEPT !.pos = "add_company",
                                       !.company = o.company,
                                       !.emails = o.emails,
                                       !.hist = Append(@,
                                           [i |-> batch.i, how |-> "in work",
                                            kind |-> o.kind,
                                            emails |-> o.emails])]
               ELSE IF batch.runner = "process_category"
               THEN batch' = [b EXCEPT
                        !.pos = next_pos(batch),
                        !.i = @ + 1,
                        !.stats = update_extraction(@, TRUE, FALSE, 0),
                        !.hist = Append(@,
                            [i |-> batch.i, how |-> "raised",
                             kind |-> o.kind, emails |-> << >>])]
               ELSE batch' = [b EXCEPT
                        !.pos = "raised",
                        !.hist = Append(@,
                            [i |-> batch.i, how |-> "raised",
                             kind |-> o.kind, emails |-> << >>])]
    /\ UNCHANGED nonBatchVars


\* company_id = self.db.add_company(url, category, company)
process_single_url_add_company ==
    /\ batch.pos = "add_company"
    /\ batch' = [batch EXCEPT
                    !.pos = IF batch.emails # << >> THEN "add_emails"
                            ELSE "update",
                    !.db.companies = @ \cup {batch.ids[batch.i]}]
    /\ UNCHANGED nonBatchVars

\* `if emails:` self.db.add_emails(emails, company_id, url)
process_single_url_add_emails ==
    /\ batch.pos = "add_emails"
    /\ batch' = [batch EXCEPT
                    !.pos = "update",
                    !.db.emails = @ \cup {[email |-> e,
                                           url |-> batch.ids[batch.i]] :
                                              e \in Range(batch.emails)}]
    /\ UNCHANGED nonBatchVars

\* self.stats.update_extraction(category or "unknown", ...) and
\* `return emails`; the category of process_category is in stats.categories,
\* main passes none
process_single_url_update ==
    /\ batch.pos = "update"
    /\ batch' = [batch EXCEPT
                    !.pos = "after",
                    !.stats = update_extraction(
                                  @, batch.runner = "process_category",
                                  batch.emails # << >>, Len(batch.emails)),
                    !.hist[Len(batch.hist)].how = "returned"]
    /\ UNCHANGED nonBatchVars

\* all_emails.extend(emails)
extend_dropping_earlier(all_emails, emails) == emails
extend(all_emails, emails) == all_emails \o emails

\* process_category after process_single_url has returned: extend, and
\* `if i < len(urls): time.sleep(delay)`.  A delay that time.sleep refuses
\* (negative, or no number) raises inside the try block: the handler of
\* line 259 counts a failed extraction for the url that was just counted.
process_category_after ==
    /\ batch.runner = "process_category"
    /\ batch.pos = "after"
    /\ LET b == [batch EXCEPT !.pos = next_pos(batch), !.i = @ + 1,
                              !.all_emails = extend(@, batch.emails)]
       IN  IF batch.i < Len(batch.ids)
           THEN IF batch.delay_ok
                THEN batch' = [b EXCEPT !.slept = Append(@, batch.i)]
                ELSE batch' = [b EXCEPT
                         !.stats = update_extraction(@, TRUE, FALSE, 0)]
           ELSE batch' = b
    /\ UNCHANGED nonBatchVars

\* main after process_single_url has returned: extend; this loop has no
\* sleep
main_file_after ==
    /\ batch.runner = "main_file"
    /\ batch.pos = "after"
    /\ batch' = [batch EXCEPT !.pos = next_pos(batch), !.i = @ + 1,
                              !.all_emails = extend(@, batch.emails)]
    /\ UNCHANGED nonBatchVars

\* unique_emails = sorted(list(set(all_emails))) and the return of
\* process_category, resp. the printing of main
batch_finish ==
    /\ batch.runner \in {"process_category", "main_file"}
    /\ batch.pos = "finish"
    /\ batch' = [batch EXCEPT !.pos = "returned",
                              !.returned = sorted_list_set(batch.all_emails)]
    /\ UNCHANGED nonBatchVars

\* Ctrl-C while process_category or the loop of main is at work:
\* KeyboardInterrupt is no Exception, so the handler of the loop does not
\* see it; main prints a message and leaves with sys.exit(1)
KeyboardInterrupt ==
    /\ batch.runner \in {"process_category", "main_file"}
    /\ batch.pos \in {"extract", "add_company", "add_emails", "update",
                      "after", "finish"}
    /\ batch' = [batch EXCEPT !.pos = "interrupted"]
    /\ UNCHANGED nonBatchVars

InitBatch ==
    /\ NoSession
    /\ txt = << >>
    /\ \/ \E ids \in SeqsUpTo(Ogrns, MaxBatch) :
              batch = NewBatch("process_ogrn_list", ids, TRUE)
       \/ \E runner \in {"process_category", "main_file"},
             ids \in SeqsUpTo(BatchUrls, MaxBatch), delay_ok \in BOOLEAN :
              batch = NewBatch(runner, ids, delay_ok)

NextBatch ==
    \/ process_ogrn_list_iteration
    \/ process_ogrn_list_return
    \/ process_category_start
    \/ main_file_start
    \/ process_single_url_extract
    \/ process_single_url_add_company
    \/ process_single_url_add_emails
    \/ process_single_url_update
    \/ process_category_after
    \/ main_file_after
    \/ batch_finish
    \/ KeyboardInterrupt

SpecBatch == InitBatch /\ [][NextBatch]_vars


(***************************************************************************)
(* Claims about the batch runs.                                            *)
(***************************************************************************)
\* a numeric string: one or more digits and nothing else
IsNumeric(s) == s # << >> /\ \A k \in 1..Len(s) : s[k] \in Digits

\* the urls get_webpage_content was called with for the identifier at idx
FetchedFor(idx) ==
    {batch.fetched[k].url : k \in {j \in 1..Len(batch.fetched) :
                                       batch.fetched[j].i = idx}}

\* C13: in process_ogrn_list a 13-digit numeric identifier is fetched from
\* the contacts template, a 15-digit numeric one from the individual
\* template, and an identifier of any other length or one that is no
\* numeric string is skipped without a fetch.
C13_IdentifierFormatDecidesTheFetch ==
    batch.runner = "process_ogrn_list" =>
        \A k \in 1..Len(batch.hist) :
            LET idx == batch.hist[k].i
                s == batch.ids[idx].repr
            IN  IF IsNumeric(s) /\ Len(s) = 13
                THEN FetchedFor(idx) =
                         {BASE_URL_COMPANY \o << "/" >> \o s \o CONTACTS}
                ELSE IF IsNumeric(s) /\ Len(s) = 15
                THEN FetchedFor(idx) = {BASE_URL_PEOPLE \o << "/" >> \o s}
                ELSE /\ FetchedFor(idx) = {}
                     /\ batch.hist[k].how = "skipped"

\* C13, by length alone: what process_ogrn_list does for an identifier
\* whose text int() and str() can produce.
C13_LengthDecidesTheFetch ==
    batch.runner = "process_ogrn_list" =>
        \A k \in 1..Len(batch.hist) :
            LET idx == batch.hist[k].i
                s == batch.ids[idx].repr
            IN  ~ ogrn_str_raises(batch.ids[idx]) =>
                    IF Len(s) = 13
                    THEN FetchedFor(idx) =
                             {BASE_URL_COMPANY \o << "/" >> \o s \o CONTACTS}
                    ELSE IF Len(s) = 15
                    THEN FetchedFor(idx) =
                             {BASE_URL_PEOPLE \o << "/" >> \o s}
                    ELSE /\ FetchedFor(idx) = {}
                         /\ batch.hist[k].how = "skipped"


\* the identifiers of the list the run has worked on
WorkedOn == {batch.hist[k].i : k \in 1..Len(batch.hist)}

\* C14: in process_category and process_ogrn_list no error of one
\* identifier terminates the run: no exception leaves the call, and when it
\* has returned every identifier of the list has been worked on.
C14_NoErrorTerminatesTheBatch ==
    batch.runner \in {"process_category", "process_ogrn_list"} =>
        /\ batch.pos # "raised"
        /\ batch.pos = "returned" => WorkedOn = 1..Len(batch.ids)

\* C14, for process_category alone, whose loop body is inside
\* try / except Exception.
C14_ProcessCategoryOutlivesErrors ==
    batch.runner = "process_category" =>
        /\ batch.pos # "raised"
        /\ batch.pos = "returned" => WorkedOn = 1..Len(batch.ids)


\* the identifiers whose work ended in an exception or without an email
FailedIds ==
    {batch.hist[k].i : k \in {j \in 1..Len(batch.hist) :
                                  \/ batch.hist[j].how = "raised"
                                  \/ batch.hist[j].emails = << >>}}

\* C15: when process_category has returned, every identifier of the list
\* has been counted exactly once: successful + failed = N and failed is the
\* number of identifiers that failed, for the counters of the run and for
\* those of the category.
C15_EachIdentifierCountedOnce ==
    (batch.runner = "process_category" /\ batch.pos = "returned") =>
        /\ batch.stats.successful_extractions
               + batch.stats.failed_extractions = Len(batch.ids)
        /\ batch.stats.failed_extractions = Cardinality(FailedIds)
        /\ batch.stats.cat_successful + batch.stats.cat_failed
               = Len(batch.ids)
        /\ batch.stats.cat_failed = Cardinality(FailedIds)

\* C15, when every sleep between two urls returns: the same counts.
C15_CountedOnceWhenTheDelayIsValid ==
    (batch.runner = "process_category" /\ batch.pos = "returned"
     /\ batch.delay_ok) =>
        /\ batch.stats.successful_extractions
               + batch.stats.failed_extractions = Len(batch.ids)
        /\ batch.stats.failed_extractions = Cardinality(FailedIds)
        /\ batch.stats.cat_successful + batch.stats.cat_failed
               = Len(batch.ids)
        /\ batch.stats.cat_failed = Cardinality(FailedIds)


\* the delays and the fetches so far are those of a run that sleeps once
\* after every fetched identifier but the last
DelaysSeparateFetches ==
    /\ Len(batch.fetched) = 0 => batch.slept = << >>
    /\ Len(batch.fetched) > 0 =>
           Len(batch.slept) \in {Len(batch.fetched) - 1, Len(batch.fetched)}
    /\ (batch.pos = "returned" /\ Len(batch.fetched) > 0) =>
           Len(batch.slept) = Len(batch.fetched) - 1

\* C16: in every batch (process_category, process_ogrn_list, the --file
\* branch of main) the delay is slept exactly once between two successive
\* processed identifiers, whether the earlier one succeeded or failed, and
\* not after the last: delay k comes after fetch k and before fetch k+1, and
\* a returned batch of N fetched identifiers has slept N-1 times.
C16_OneDelayBetweenSuccessiveIdentifiers == DelaysSeparateFetches

\* C16 for process_category alone, when the delay is one time.sleep accepts
\* and no call of process_single_url raised.
C16_ProcessCategoryDelaysAfterEveryReturn ==
    (/\ batch.runner = "process_category"
     /\ batch.delay_ok
     /\ \A k \in 1..Len(batch.hist) : batch.hist[k].how # "raised")
        => DelaysSeparateFetches


\* the emails process_single_url has returned to the loop of the batch
ReturnedEmails ==
    UNION {Range(batch.hist[k].emails) :
               k \in {j \in 1..Len(batch.hist) :
                          batch.hist[j].how = "returned"}}

\* C17: what process_category returns is the ascending list, without
\* duplicates, of exactly the emails that process_single_url returned for
\* some url of the batch.
C17_ProcessCategoryReturnsSortedUnion ==
    (batch.runner = "process_category" /\ batch.pos = "returned") =>
        /\ Range(batch.returned) = ReturnedEmails
        /\ Ascending(batch.returned)

\* C17 witness: a batch of two urls, the first page gave a@x.io and b@x.io,
\* the second a@x.io again; the batch returned [a@x.io, b@x.io].
C17_Witness ==
    /\ batch.runner = "process_category"
    /\ batch.pos = "returned"
    /\ Len(batch.hist) = 2
    /\ batch.hist[1].how = "returned"
    /\ batch.hist[1].emails = << A_X_IO, B_X_IO >>
    /\ batch.hist[2].how = "returned"
    /\ batch.hist[2].emails = << A_X_IO >>
    /\ batch.returned = << A_X_IO, B_X_IO >>


\* extract_emails_from_webpage of EmailExtractor has just returned to
\* process_single_url after an exception in its try block
ReturnedAfterParsingError ==
    /\ batch.runner \in {"process_category", "main_file"}
    /\ batch.pos = "add_company"
    /\ batch.hist[Len(batch.hist)].kind
           \in {"error_before_name", "error_after_name"}

\* C18: when the extraction of a fetched document raises, the call of
\* extract_emails_from_webpage returns an empty entity name together with an
\* empty email list (and the exception does not reach the batch loop).
C18_ParsingErrorGivesTheEmptyResult ==
    ReturnedAfterParsingError =>
        /\ batch.company = << >>
        /\ batch.emails = << >>

\* C18, the part about the emails: after an exception in the try block the
\* list returned is empty.
C18_ParsingErrorGivesNoEmails ==
    ReturnedAfterParsingError => batch.emails = << >>


\* the url of the k-th identifier worked on, and whether the database holds
\* an email of that piece of work
UrlOf(k) == batch.ids[batch.hist[k].i]
Stored(k) ==
    \E e \in Range(batch.hist[k].emails) :
        [email |-> e, url |-> UrlOf(k)] \in batch.db.emails
FirstWorkOnItsUrl(k) == \A j \in 1..(k - 1) : UrlOf(j) # UrlOf(k)

\* every identifier is either recorded in full or not at all: one that
\* process_single_url has counted has its emails stored, and one it has not
\* counted (still in work) has nothing in the database
RecordedInFullOrNotAtAll ==
    \A k \in 1..Len(batch.hist) :
        /\ (batch.hist[k].how = "returned" /\ batch.hist[k].emails # << >>)
               => Stored(k)
        /\ (batch.hist[k].how = "in work" /\ FirstWorkOnItsUrl(k))
               => /\ ~Stored(k)
                  /\ UrlOf(k) \notin batch.db.companies

\* C19: after an operator interrupt at any point of a running batch the
\* stats and the stored results agree: no identifier has its company or its
\* emails stored without being counted, none is counted without its emails
\* stored.
C19_InterruptLeavesStatsAndStoreConsistent ==
    batch.pos = "interrupted" => RecordedInFullOrNotAtAll

\* C19 for an interrupt that arrives between two identifiers (no call of
\* process_single_url is in work).
C19_InterruptBetweenIdentifiersIsConsistent ==
    (/\ batch.pos = "interrupted"
     /\ \A k \in 1..Len(batch.hist) : batch.hist[k].how # "in work")
        => RecordedInFullOrNotAtAll


\* process_single_url, called for a url whose fetch gave no page (kinds),
\* raised nothing, returned [] and counted one failed extraction and no
\* successful one
FailedFetchHandled(kinds) ==
    \A k \in 1..Len(batch.hist) :
        (/\ batch.runner \in {"process_category", "main_file"}
         /\ batch.hist[k].kind \in kinds)
            => /\ batch.hist[k].how # "raised"
               /\ batch.hist[k].emails = << >>
               /\ (k = 1 /\ Len(batch.hist) = 1 /\ batch.pos = "after")
                      => /\ batch.stats.failed_extractions = 1
                         /\ batch.stats.successful_extractions = 0

\* C20: process_single_url on a url whose fetch fails on every attempt
\* returns the empty list, raises nothing and records exactly one failed
\* extraction and no successful one.
C20_FailedFetchReturnsEmptyAndCountsOneFailure ==
    FailedFetchHandled({"no_content", "raise"})

\* C20 when every attempt fails with a RequestException, so that
\* get_webpage_content returns None.
C20_ExhaustedFetchReturnsEmptyAndCountsOneFailure ==
    FailedFetchHandled({"no_content"})


(***************************************************************************)
(* The session after the constructor: the pool, the header set and the     *)
(* proxy of the attempts of a fetch.                                       *)
(***************************************************************************)
\* the constructor has returned: vetting, if any, is over
VettingOver == pc \in {"ready", "attempt", "backoff", "returned", "raised"}

\* C21: once the constructor has returned, no step of the session (entry of
\* a fetch, attempt, backoff sleep, return) changes the pool self.proxies,
\* and none probes a candidate: the list, the snapshot and position of the
\* vetting loop and the sets of probed candidates stay as vetting left them.
C21_PoolIsReadOnlyAfterVetting ==
    [][VettingOver => UNCHANGED vetVars]_vars

\* C21 witness: vetting removed a candidate and kept one, and a fetch call
\* with three attempts through the pool has returned.
C21_Witness ==
    /\ pc = "returned"
    /\ use_proxies
    /\ vetRejected # {}
    /\ proxy_file # << >>
    /\ Len(log) = 3
    /\ proxyDraws = 3


\* C22: every request of a fetch call goes out with a header set synthesized
\* for that attempt: a call that has issued k requests has drawn k header
\* sets (User-Agent and profile), none used for two attempts.
C22_FreshHeadersForEveryAttempt ==
    (InFetch /\ Len(log) >= 1) => hdrDraws = Len(log)

\* C22, what the code does: one header set per call, drawn before the loop
\* and sent with every attempt.
C22_OneHeaderSetPerCall ==
    InFetch => hdrDraws = 1


\* C23: with a non-empty pool every attempt of a fetch draws a proxy of the
\* pool for itself: a call that has issued k requests has made k draws, none
\* went out without a proxy, and whatever the earlier attempts used, the
\* next attempt can go through any proxy of the pool.
C23_EveryAttemptDrawsItsProxy ==
    /\ (InFetch /\ self_proxies # << >>) =>
           /\ proxyDraws = Len(log)
           /\ proxiesUsed \subseteq Range(self_proxies)
    /\ (pc = "attempt" /\ in_range(attempt, max_retries)
        /\ self_proxies # << >>) =>
           \A p \in Range(self_proxies) :
               ENABLED (/\ get_webpage_content_attempt
                        /\ proxiesUsed' = proxiesUsed \cup {p})

\* C23 witness: a pool of two proxies, and one call whose two attempts went
\* through different proxies.
C23_Witness ==
    /\ InFetch
    /\ Range(self_proxies) = {"p1", "p2"}
    /\ Len(log) = 2
    /\ proxiesUsed = {"p1", "p2"}


(***************************************************************************)
(* The mailto strategy and the entity name of EmailExtractor.              *)
(***************************************************************************)
\* the target of a mailto anchor without the prefix and without everything
\* from the first '?'
MailtoRemainder(href) ==
    Split(SubSeq(href, Len(MAILTO) + 1, Len(href)), "?")[1]

\* what the mailto strategy yields according to the claim: one remainder for
\* every anchor whose target begins with 'mailto:' and whose remainder holds
\* an '@', in the order of the anchors, nothing for the other anchors
MailtoAsClaimed(page) ==
    LET links == AllAnchors(page) IN
    Flatten([i \in 1..Len(links) |->
        IF /\ links[i].href # NoAttr
           /\ StartsWith(links[i].href, MAILTO)
           /\ Contains(MailtoRemainder(links[i].href), "@")
        THEN << MailtoRemainder(links[i].href) >>
        ELSE << >>])

HasMailtoWithQuery(page) ==
    \E i \in 1..Len(page.anchors) :
        page.anchors[i].href = MAILTO \o A_X_IO \o << "?", "s" >>

\* C24: in EmailExtractor and in ExtractionEmail the mailto strategy yields
\* exactly the remainders of the mailto anchors that hold an '@', and a
\* page with <a href="mailto:a@x.io?s"> has a@x.io in the extraction result.
C24_MailtoYieldsTheTargetWithoutQuery ==
    (txt.phase = "extracted" /\ txt.impl # "script"
     /\ txt.content # NoContent) =>
        /\ extract_emails_from_mailto_links(
               txt.content, txt.impl = "ExtractionEmail")
             = MailtoAsClaimed(txt.content)
        /\ HasMailtoWithQuery(txt.content) =>
               A_X_IO \in Range(txt.emails)

\* C24 in EmailExtractor, for a page that has the company link: the
\* strategy yields the remainders as they are, and a@x.io is in the result.
C24_MailtoInEmailExtractorWithCompanyLink ==
    (txt.phase = "extracted" /\ txt.impl = "EmailExtractor"
     /\ txt.content # NoContent /\ txt.content.company_link # NoElem) =>
        /\ extract_emails_from_mailto_links(txt.content, FALSE)
             = MailtoAsClaimed(txt.content)
        /\ HasMailtoWithQuery(txt.content) =>
               A_X_IO \in Range(txt.emails)

\* C24 in ExtractionEmail: the strategy yields the remainders stripped of
\* surrounding whitespace, and a@x.io is in the result.
C24_MailtoInExtractionEmailIsStripped ==
    (txt.phase = "extracted" /\ txt.impl = "ExtractionEmail"
     /\ txt.content # NoContent) =>
        /\ extract_emails_from_mailto_links(txt.content, TRUE)
             = [i \in 1..Len(MailtoAsClaimed(txt.content)) |->
                    Strip(MailtoAsClaimed(txt.content)[i])]
        /\ HasMailtoWithQuery(txt.content) =>
               A_X_IO \in Range(txt.emails)


(***************************************************************************)
(* ExtractionEmail._extract_company_name (src/src/utils_email.py:136-160)  *)
(* over the texts of the span[itemprop=name] elements of a document and    *)
(* its title element.                                                      *)
(***************************************************************************)
MaxSpans == 3

\* UNKNOWN_COMPANY, the name given when no heuristic matches (an opaque
\* value that is no text of a document)
UNKNOWN_COMPANY == << "<UNKNOWN_COMPANY>" >>

\* `if len(name_spans) > 2`: name_spans[2].text.strip(), returned when not
\* empty; else `if title` (a found element is truthy): title.text.strip(),
\* returned when not empty; else UNKNOWN_COMPANY
extract_company_name_unstripped(name_spans, title) ==
    IF Len(name_spans) > 2 /\ name_spans[3] # << >>
    THEN name_spans[3]
    ELSE IF title # NoElem /\ title # << >>
    THEN title
    ELSE UNKNOWN_COMPANY
extract_company_name(name_spans, title) ==
    IF Len(name_spans) > 2 /\ Strip(name_spans[3]) # << >>
    THEN Strip(name_spans[3])
    ELSE IF title # NoElem /\ Strip(title) # << >>
    THEN Strip(title)
    ELSE UNKNOWN_COMPANY

NameTexts ==
    { << >>, << " " >>, << "A" >>, << " ", "B", "\n" >>, << "C" >> }
TitleTexts == { NoElem, << >>, << "T" >>, << " ", "T", " " >> }

InitCompanyName ==
    /\ NoSession
    /\ batch = << >>
    /\ \E name_spans \in SeqsUpTo(NameTexts, MaxSpans), title \in TitleTexts :
           txt = [phase |-> "parsed", name_spans |-> name_spans,
                  title |-> title, company |-> None]

\* company = self._extract_company_name(soup)
extract_company_name_call ==
    /\ txt.phase = "parsed"
    /\ txt' = [txt EXCEPT
                  !.phase = "named",
                  !.company = extract_company_name(txt.name_spans, txt.title)]
    /\ UNCHANGED sessionVars

NextCompanyName == extract_company_name_call

SpecCompanyName == InitCompanyName /\ [][NextCompanyName]_vars

\* C25 (as claimed): with at least three name markers the name is the text
\* of the third; with fewer it is the text of the title element; with
\* neither it is UNKNOWN_COMPANY; and the name is never empty.
C25_ThirdMarkerElseTitleElseUnknown ==
    txt.phase = "named" =>
        /\ Len(txt.name_spans) >= 3 => txt.company = txt.name_spans[3]
        /\ (Len(txt.name_spans) < 3 /\ txt.title # NoElem) =>
               txt.company = txt.title
        /\ (Len(txt.name_spans) < 3 /\ txt.title = NoElem) =>
               txt.company = UNKNOWN_COMPANY
        /\ txt.company # << >>

\* the third marker has a text that is not blank; the title exists and its
\* text is not blank
ThirdMarkerNamed(name_spans) ==
    Len(name_spans) >= 3 /\ Strip(name_spans[3]) # << >>
TitleNamed(title) == title # NoElem /\ Strip(title) # << >>

\* C25 (amended): the name is the stripped text of the third marker when
\* there are three markers and that text is not blank; otherwise the
\* stripped text of the title when there is a title with a text that is not
\* blank; otherwise UNKNOWN_COMPANY.  It is never empty and has no
\* whitespace at either end.
C25_StrippedThirdMarkerElseTitleElseUnknown ==
    txt.phase = "named" =>
        /\ ThirdMarkerNamed(txt.name_spans) =>
               txt.company = Strip(txt.name_spans[3])
        /\ (~ ThirdMarkerNamed(txt.name_spans) /\ TitleNamed(txt.title)) =>
               txt.company = Strip(txt.title)
        /\ (~ ThirdMarkerNamed(txt.name_spans) /\ ~ TitleNamed(txt.title)) =>
               txt.company = UNKNOWN_COMPANY
        /\ txt.company # << >>
        /\ txt.company # UNKNOWN_COMPANY => Stripped(txt.company)

\* C25 witness: three markers of which the third is blank, and a title
\* ' T ': the name is 'T'.
C25_Witness ==
    /\ txt.phase = "named"
    /\ Len(txt.name_spans) = 3
    /\ txt.name_spans[3] = << " " >>
    /\ txt.title = << " ", "T", " " >>
    /\ txt.company = << "T" >>


\* EmailExtractor.extract_emails_from_webpage has returned for a fetched
\* page on which soup.find("a", {"class": "link fw-700 fs-24"}) finds
\* nothing
ExtractedWithoutCompanyLink ==
    /\ txt.phase = "extracted"
    /\ txt.impl = "EmailExtractor"
    /\ txt.content # NoContent
    /\ txt.content.company_link = NoElem

\* the validated emails the five strategies find on a page
EmailsOnPage(page) ==
    sorted_list_set(validate_emails(
        collected(page, FALSE, EMAIL_CLASSES, FALSE, TRUE)))

\* C26: for a fetched page without the entity-name marker the result of
\* EmailExtractor carries the default unknown name and every validated email
\* of the page: the missing marker does not change the emails returned.
C26_MissingNameKeepsTheEmails ==
    ExtractedWithoutCompanyLink =>
        /\ txt.company = UNKNOWN_COMPANY
        /\ txt.emails = EmailsOnPage(txt.content)

\* C26, what the code does: without the marker the result is the empty
\* name and no email at all.
C26_MissingNameGivesTheEmptyResult ==
    ExtractedWithoutCompanyLink =>
        /\ txt.company = << >>
        /\ txt.emails = << >>


(***************************************************************************)
(* The header set of a fetch call, its names compared without case.        *)
(***************************************************************************)
\* the lower-case form of a header name of the model
HeaderNameLower(k) ==
    CASE k = "Sec-Fetch-Dest" -> "sec-fetch-dest"
      [] k = "Sec-Fetch-Mode" -> "sec-fetch-mode"
      [] k = "Sec-Fetch-Site" -> "sec-fetch-site"
      [] k = "Sec-Fetch-User" -> "sec-fetch-user"
      [] OTHER -> k

\* the values a header set holds under a name, case ignored
ValuesOf(h, name) == {h[k] : k \in {x \in DOMAIN h : HeaderNameLower(x) = name}}

OneEntryPerName(h) ==
    \A k1, k2 \in DOMAIN h :
        HeaderNameLower(k1) = HeaderNameLower(k2) => k1 = k2

\* C27: the header set of a fetch call holds one entry per header name,
\* case ignored, and its sec-fetch-site value is 'cross-site' (the 50%
\* branch was taken, no 'same-origin' left) or 'same-origin' (not taken).
C27_ProfileOverridesTheFourHeaders ==
    InFetch =>
        /\ OneEntryPerName(headers)
        /\ \/ ValuesOf(headers, "sec-fetch-site") = {"cross-site"}
           \/ ValuesOf(headers, "sec-fetch-site") = {"same-origin"}

\* C27, what the code does: when the branch is taken the four capitalized
\* names are added next to the lower-case ones, which keep their values;
\* when it is not taken the set holds the lower-case names only.
C27_ProfileAddsCapitalizedNames ==
    InFetch =>
        IF "Sec-Fetch-Site" \in DOMAIN headers
        THEN /\ headers["Sec-Fetch-Site"] = "cross-site"
             /\ headers["sec-fetch-site"] = "same-origin"
             /\ ~ OneEntryPerName(headers)
        ELSE /\ headers["sec-fetch-site"] = "same-origin"
             /\ OneEntryPerName(headers)


\* the calls of process_single_url that have returned, with and without
\* emails
ReturnedWith ==
    {k \in 1..Len(batch.hist) :
         batch.hist[k].how = "returned" /\ batch.hist[k].emails # << >>}
ReturnedWithout ==
    {k \in 1..Len(batch.hist) :
         batch.hist[k].how = "returned" /\ batch.hist[k].emails = << >>}

\* the number of emails returned by the calls of a set
RECURSIVE EmailsReturned(_)
EmailsReturned(S) ==
    IF S = {} THEN 0
    ELSE LET k == CHOOSE x \in S : TRUE
         IN  Len(batch.hist[k].emails) + EmailsReturned(S \ {k})

\* C28: process_single_url counts a url as successful exactly when it
\* returned at least one email and as failed when it returned none, whether
\* the page was parsed without an email or was not fetched at all;
\* total_emails_found is the number of emails of the successful calls.  (In
\* process_category the handler of the loop adds failures of its own, so
\* failed_extractions is compared for direct calls.)
C28_SuccessIffAnEmailWasReturned ==
    (batch.runner \in {"process_category", "main_file"}) =>
        /\ batch.stats.successful_extractions = Cardinality(ReturnedWith)
        /\ batch.stats.total_emails_found = EmailsReturned(ReturnedWith)
        /\ batch.runner = "main_file" =>
               batch.stats.failed_extractions = Cardinality(ReturnedWithout)
        /\ batch.runner = "process_category" =>
               /\ batch.stats.cat_successful = Cardinality(ReturnedWith)
               /\ batch.stats.cat_emails = EmailsReturned(ReturnedWith)
               /\ batch.stats.cat_failed = batch.stats.failed_extractions
               /\ batch.stats.failed_extractions
                      >= Cardinality(ReturnedWithout)

\* C28 witness: three direct calls: a page parsed without any email, a url
\* that gave no content, a page with two emails; 1 success, 2 failures,
\* 2 emails.
C28_Witness ==
    /\ batch.runner = "main_file"
    /\ batch.pos = "returned"
    /\ Len(batch.hist) = 3
    /\ batch.hist[1].kind = "parsed" /\ batch.hist[1].emails = << >>
    /\ batch.hist[2].kind = "no_content"
    /\ batch.hist[3].emails = << A_X_IO, B_X_IO >>
    /\ batch.stats.successful_extractions = 1
    /\ batch.stats.failed_extractions = 2
    /\ batch.stats.total_emails_found = 2


(***************************************************************************)
(* The tables companies and emails of EmailDatabase                        *)
(* (src/src/database.py) under calls of process_single_url.                *)
(***************************************************************************)
MaxCalls == 3

\* what add_company returns after a sqlite3.Error
AddCompanyFailed == 0 - 1

\* init_database: companies(id AUTOINCREMENT, url UNIQUE), emails(email
\* UNIQUE, company_id); seq is the highest id given so far
NewDatabase == [companies |-> {}, emails |-> {}, seq |-> 0]

\* add_company: INSERT OR REPLACE on the unique url deletes the row of that
\* url and inserts a new one, which gets a new id; an sqlite3.Error is
\* logged and nothing is written
add_company(db, url, ok) ==
    IF ~ ok THEN db
    ELSE [db EXCEPT
             !.companies = {c \in @ : c.url # url}
                               \cup {[id |-> db.seq + 1, url |-> url]},
             !.seq = @ + 1]

\* `return cursor.lastrowid`, -1 after an sqlite3.Error
add_company_id(db, url, ok) == IF ok THEN db.seq + 1 ELSE AddCompanyFailed

\* add_emails: INSERT OR IGNORE on the unique email keeps the row an email
\* already has
add_emails(db, emails, company_id) ==
    [db EXCEPT
        !.emails = @ \cup {[email |-> e, company_id |-> company_id] :
                               e \in {x \in Range(emails) :
                                          \A r \in db.emails : r.email # x}}]

StoredEmailLists == { << >>, << A_X_IO >>, << A_X_IO, B_X_IO >> }

InitDatabase ==
    /\ NoSession
    /\ batch = << >>
    /\ txt = [db |-> NewDatabase, calls |-> << >>]

\* process_single_url(url) as the database sees it: add_company, and
\* add_emails with the id it returned when the extraction gave emails
process_single_url_database ==
    /\ Len(txt.calls) < MaxCalls
    /\ \E url \in BatchUrls, emails \in StoredEmailLists, ok \in BOOLEAN :
           LET company_id == add_company_id(txt.db, url, ok)
               db1 == add_company(txt.db, url, ok)
           IN  txt' = [db |-> IF emails # << >>
                              THEN add_emails(db1, emails, company_id)
                              ELSE db1,
                       calls |-> Append(txt.calls,
                                        [url |-> url, emails |-> emails,
                                         ok |-> ok])]
    /\ UNCHANGED sessionVars

NextDatabase == process_single_url_database

SpecDatabase == InitDatabase /\ [][NextDatabase]_vars

\* C29: after any sequence of process_single_url calls every row of emails
\* has the id of a row of companies.
C29_EveryEmailHasItsCompany ==
    \A r \in txt.db.emails :
        \E c \in txt.db.companies : c.id = r.company_id

\* C29 as long as no url is processed twice and add_company meets no
\* database error.
C29_EveryEmailHasItsCompanyOnFirstProcessing ==
    (/\ \A i, j \in 1..Len(txt.calls) :
            txt.calls[i].url = txt.calls[j].url => i = j
     /\ \A i \in 1..Len(txt.calls) : txt.calls[i].ok)
        => C29_EveryEmailHasItsCompany


\* C30: with use_proxies set, no request of a fetch call is sent without a
\* proxy, whatever vetting left in the pool.
C30_NoDirectRequestWhenProxiesEnabled ==
    (use_proxies /\ InFetch) => NoProxy \notin proxiesUsed

\* C30, what the code does: with use_proxies set a request goes out without
\* a proxy exactly when the pool is empty.
C30_DirectRequestsOnlyWithAnEmptyPool ==
    (use_proxies /\ InFetch /\ Len(log) >= 1) =>
        (NoProxy \in proxiesUsed <=> self_proxies = << >>)

====
